---- MODULE Spec2Model ----
(***************************************************************************)
(* Model of the BeatBrain notebooks:                                       *)
(*   - the hyperparameter search `objective` / `study.optimize(objective)` *)
(*     of the mel -> STFT inversion study,                                 *)
(*   - the inversion optimizer's state machine,                            *)
(*   - the layer shapes of build_encoder / build_decoder.                  *)
(* Floating point values are modelled as records [k, v]: a finite value    *)
(* (k = "fin", magnitude v), +infinity (k = "inf") or NaN (k = "nan"),     *)
(* with the IEEE rules for comparison and addition.                        *)
(***************************************************************************)
EXTENDS Integers, Sequences, FiniteSets, TLC

\* ------------------------------------------------------------------ bounds
\* number of trials the search controller runs before the model stops it
MaxTrials == 2
\* upper limit of the evaluation subset's size (2048 in the notebook)
MAX_ITEMS == 3
\* items per batch of the dataloader (128 in the notebook)
BATCH_SIZE == 2
\* longest loss trace an inversion run returns
MaxSteps == 3
\* largest finite loss value of a trace
MaxLoss == 1
\* largest finite per-batch reconstruction error
MaxErr == 1

\* ------------------------------------------------------------------ floats
F(n) == [k |-> "fin", v |-> n]
Inf == [k |-> "inf", v |-> 0]
NaN == [k |-> "nan", v |-> 0]

IsFinite(a) == a.k = "fin"
IsNaN(a) == a.k = "nan"

\* a > b on floats: false as soon as one side is NaN
FGt(a, b) ==
    CASE IsNaN(a) \/ IsNaN(b) -> FALSE
      [] a.k = "inf" -> b.k = "fin"
      [] OTHER -> b.k = "fin" /\ a.v > b.v

\* a + b on floats (all values of the model are >= 0)
FAdd(a, b) ==
    CASE IsNaN(a) \/ IsNaN(b) -> NaN
      [] a.k = "inf" \/ b.k = "inf" -> Inf
      [] OTHER -> F(a.v + b.v)

\* a / d for a positive integer d, kept exact as numerator over denominator
FDiv(a, d) == [num |-> a, den |-> d]

LossValues == {F(n) : n \in 0..MaxLoss} \cup {Inf, NaN}
FiniteErrs == {F(n) : n \in 0..MaxErr}

AllFinite(l) == \A j \in 1..Len(l) : IsFinite(l[j])

\* loss traces of a run: one loss per step, and no step after a loss that
\* left the numeric range
Traces ==
    {l \in UNION {[1..n -> LossValues] : n \in 1..MaxSteps} :
        \A j \in 1..(Len(l) - 1) : IsFinite(l[j])}

\* -------------------------------------------------------- trial parameters
LrValues == {1}
MomentumValues == {9}
LossThresholdValues == {1}
GradThresholdValues == {1}

Configs ==
    [lr : LrValues, momentum : MomentumValues,
     loss_threshold : LossThresholdValues,
     grad_threshold : GradThresholdValues,
     random_start : BOOLEAN]

NoCfg == [lr |-> 0, momentum |-> 0, loss_threshold |-> 0,
          grad_threshold |-> 0, random_start |-> FALSE]

\* keyword arguments of a call; <<>> is "no call made yet"
NoArgs == <<>>

NoOutcome == [kind |-> "none", losses |-> <<>>]

NoValue == [num |-> F(0), den |-> 0]

VARIABLES
    nItems,      \* len(dataloader.dataset)
    pc,          \* position of the search controller / objective
    cfg,         \* configuration sampled for the trial in progress
    callArgs,    \* keyword arguments of the trial's latest to_mel.to_stft call
    calls,       \* number of to_mel.to_stft calls made by the trial in progress
    i,           \* index of the batch the trial is at
    loss,        \* running sum of the per-batch errors
    outcome,     \* what the latest to_mel.to_stft call did
    reports,     \* trial.report(value, step) calls of the trial in progress
    shouldPrune, \* what trial.should_prune() answers after the latest report
    unstable,    \* an inversion run of the trial in progress overflowed or diverged
    exc,         \* exception leaving objective, with the reason it was raised
    retval,      \* value returned by objective
    trials,      \* the study's record of finished trials
    \* ---- inversion optimizer
    inv,
    \* ---- model construction
    net,
    \* ---- evaluation of tanh_to_sigmoid / KLLoss
    fn,
    \* ---- VisualizeCallback during training
    cb

studyVars == <<nItems, pc, cfg, callArgs, calls, i, loss, outcome, reports,
               shouldPrune, unstable, exc, retval, trials>>
vars == <<nItems, pc, cfg, callArgs, calls, i, loss, outcome, reports,
          shouldPrune, unstable, exc, retval, trials, inv, net, fn, cb>>

\* len(dataloader): batches of BATCH_SIZE items, the last one may be short
NumBatches == (nItems + BATCH_SIZE - 1) \div BATCH_SIZE

NoExc == [type |-> "none", reason |-> "none"]

InvIdle == [state |-> "IDLE"]
NetIdle == [stage |-> "idle"]
FnIdle == [op |-> "idle"]
CbIdle == [pos |-> "idle"]

StudyInit ==
    /\ nItems \in 1..MAX_ITEMS
    /\ pc = "idle"
    /\ cfg = NoCfg
    /\ callArgs = NoArgs
    /\ calls = 0
    /\ i = 0
    /\ loss = F(0)
    /\ outcome = NoOutcome
    /\ reports = <<>>
    /\ shouldPrune = FALSE
    /\ unstable = FALSE
    /\ exc = NoExc
    /\ retval = NoValue
    /\ trials = <<>>

Init ==
    /\ StudyInit
    /\ inv = InvIdle
    /\ net = NetIdle
    /\ fn = FnIdle
    /\ cb = CbIdle

\* ------------------------------------------------------------- objective
\* raise <type> out of objective
Raise(type, reason) ==
    /\ pc' = "raised"
    /\ exc' = [type |-> type, reason |-> reason]

\* the locals of objective before its first statement / after it was left
Frame(c) ==
    /\ cfg' = c
    /\ callArgs' = NoArgs
    /\ calls' = 0
    /\ i' = 0
    /\ loss' = F(0)
    /\ outcome' = NoOutcome
    /\ reports' = <<>>
    /\ shouldPrune' = FALSE
    /\ unstable' = FALSE
    /\ exc' = NoExc
    /\ retval' = NoValue

\* the five trial.suggest_* calls and the loss = 0 before the loop
Suggest(c) == Frame(c)

\* keyword arguments objective passes to to_mel.to_stft
ToStftKwargs(c) ==
    [loss_threshold |-> c.loss_threshold,
     grad_threshold |-> c.grad_threshold,
     lr |-> c.lr,
     momentum |-> c.momentum,
     return_extras |-> TRUE]

\* for i, (audio, sr) in enumerate(tqdm(dataloader)): the next batch is
\* fetched and transformed, or the loop is over and objective returns
LoopHead ==
    /\ pc = "loop"
    /\ IF i < NumBatches
       THEN /\ pc' = "try"
            /\ UNCHANGED <<exc, retval>>
       ELSE /\ pc' = "returned"
            /\ retval' = FDiv(loss, nItems)
            /\ UNCHANGED exc
    /\ UNCHANGED <<nItems, cfg, callArgs, calls, i, loss, outcome, reports,
                   shouldPrune, unstable, trials, inv, net, fn, cb>>

\* the dataset or the STFT / mel transforms of a batch raise
BatchError ==
    /\ pc = "loop"
    /\ i < NumBatches
    /\ Raise("Error", "batch")
    /\ UNCHANGED <<nItems, cfg, callArgs, calls, i, loss, outcome, reports,
                   shouldPrune, unstable, retval, trials, inv, net, fn, cb>>

\* the outcomes of one to_mel.to_stft call
Outcomes ==
    {[kind |-> "ret", losses |-> l] : l \in Traces}
    \cup {[kind |-> "overflow", losses |-> <<>>],
          [kind |-> "error", losses |-> <<>>]}

\* the run reached DIVERGED: its loss overflowed, raised as OverflowError or
\* left as a non-finite value in the trace, or its final recorded loss
\* exceeds its initial one
DivergedRun(o) ==
    \/ o.kind = "overflow"
    \/ /\ o.kind = "ret"
       /\ \/ ~AllFinite(o.losses)
          \/ FGt(o.losses[Len(o.losses)], o.losses[1])

\* recon_stft, pred_mel, losses = to_mel.to_stft(mel, ...)
Invert ==
    /\ pc = "try"
    /\ callArgs' = ToStftKwargs(cfg)
    /\ calls' = calls + 1
    /\ outcome' \in Outcomes
    /\ unstable' = (unstable \/ DivergedRun(outcome'))
    /\ pc' = "called"
    /\ UNCHANGED <<nItems, cfg, i, loss, reports, shouldPrune, exc, retval,
                   trials, inv, net, fn, cb>>

\* OnOverflow without the except clause: the OverflowError leaves objective
OnOverflow_mut == Raise("OverflowError", "call")

\* except OverflowError: raise optuna.TrialPruned()
OnOverflow == Raise("TrialPruned", "overflow")

\* OnError under a broad `except Exception` that prunes
OnError_mut == Raise("TrialPruned", "error")

\* any other exception of the call is not caught
OnError == Raise("Error", "call")

CallRaised ==
    /\ pc = "called"
    /\ outcome.kind \in {"overflow", "error"}
    /\ IF outcome.kind = "overflow" THEN OnOverflow ELSE OnError
    /\ UNCHANGED <<nItems, cfg, callArgs, calls, i, loss, outcome, reports,
                   shouldPrune, unstable, retval, trials, inv, net, fn, cb>>

\* Diverged with the comparison turned around
Diverged_mut(l) == FGt(l[1], l[Len(l)])

\* losses[-1] > losses[0]
Diverged(l) == FGt(l[Len(l)], l[1])

\* DivergenceCheck that tests losses[-1] >= losses[0]
DivergenceCheck_mut ==
    /\ pc = "called"
    /\ outcome.kind = "ret"
    /\ IF /\ ~IsNaN(outcome.losses[Len(outcome.losses)])
          /\ ~IsNaN(outcome.losses[1])
          /\ ~FGt(outcome.losses[1], outcome.losses[Len(outcome.losses)])
       THEN Raise("TrialPruned", "diverged")
       ELSE /\ pc' = "accumulate"
            /\ UNCHANGED exc
    /\ UNCHANGED <<nItems, cfg, callArgs, calls, i, loss, outcome, reports,
                   shouldPrune, unstable, retval, trials, inv, net, fn, cb>>

\* if losses[-1] > losses[0]: raise optuna.TrialPruned()
DivergenceCheck ==
    /\ pc = "called"
    /\ outcome.kind = "ret"
    /\ IF Diverged(outcome.losses)
       THEN Raise("TrialPruned", "diverged")
       ELSE /\ pc' = "accumulate"
            /\ UNCHANGED exc
    /\ UNCHANGED <<nItems, cfg, callArgs, calls, i, loss, outcome, reports,
                   shouldPrune, unstable, retval, trials, inv, net, fn, cb>>

\* values (recon_stft - stft).pow(2).mean().item() can take: finite when the
\* run stayed finite, possibly NaN when the run's losses did not
BatchErrs(l) == IF AllFinite(l) THEN FiniteErrs ELSE FiniteErrs \cup {NaN}

\* Accumulate that reports before it adds the batch error
Accumulate_mut ==
    /\ pc = "accumulate"
    /\ \E e \in BatchErrs(outcome.losses) :
          /\ loss' = FAdd(loss, e)
          /\ reports' = Append(reports, [value |-> loss, step |-> i])
    /\ shouldPrune' \in BOOLEAN
    /\ outcome' = NoOutcome
    /\ pc' = "reported"
    /\ UNCHANGED <<nItems, cfg, callArgs, calls, i, unstable, exc, retval,
                   trials, inv, net, fn, cb>>

\* loss += ...; trial.report(loss, i)
Accumulate ==
    /\ pc = "accumulate"
    /\ \E e \in BatchErrs(outcome.losses) :
          /\ loss' = FAdd(loss, e)
          /\ reports' = Append(reports, [value |-> FAdd(loss, e), step |-> i])
    /\ shouldPrune' \in BOOLEAN
    /\ outcome' = NoOutcome
    /\ pc' = "reported"
    /\ UNCHANGED <<nItems, cfg, callArgs, calls, i, unstable, exc, retval,
                   trials, inv, net, fn, cb>>

\* OnShouldPrune that ignores the pruner's answer
OnShouldPrune_mut(b) ==
    /\ pc' = "loop"
    /\ i' = i + 1
    /\ UNCHANGED exc

\* if trial.should_prune(): raise optuna.TrialPruned()
OnShouldPrune(b) ==
    IF b
    THEN /\ Raise("TrialPruned", "should_prune")
         /\ UNCHANGED i
    ELSE /\ pc' = "loop"
         /\ i' = i + 1
         /\ UNCHANGED exc

ShouldPrune ==
    /\ pc = "reported"
    /\ OnShouldPrune(shouldPrune)
    /\ UNCHANGED <<nItems, cfg, callArgs, calls, loss, outcome, reports,
                   shouldPrune, unstable, retval, trials, inv, net, fn, cb>>

\* ---------------------------------------------------------- study.optimize
\* what the study keeps of a finished trial
TrialRecord(state, value, reason) ==
    [state |-> state, value |-> value, reason |-> reason, batches |-> i]

\* CanStart of a controller that does not wait for the running trial
CanStart_mut == Len(trials) < MaxTrials

\* the controller starts a trial only when none is running
CanStart == pc = "idle" /\ Len(trials) < MaxTrials

StartTrial ==
    /\ CanStart
    /\ \E c \in Configs : Suggest(c)
    /\ pc' = "loop"
    /\ UNCHANGED <<nItems, trials, inv, net, fn, cb>>

\* objective returned: the trial is complete, or failed when the value is NaN
TrialReturned ==
    /\ pc = "returned"
    /\ trials' = Append(trials,
                    IF IsNaN(retval.num)
                    THEN TrialRecord("FAIL", NoValue, "nan")
                    ELSE TrialRecord("COMPLETE", retval, "none"))
    /\ pc' = "idle"
    /\ Frame(NoCfg)
    /\ UNCHANGED <<nItems, inv, net, fn, cb>>

\* objective raised: TrialPruned ends the trial as pruned and the search goes
\* on, anything else fails the trial and leaves study.optimize
TrialRaised ==
    /\ pc = "raised"
    /\ IF exc.type = "TrialPruned"
       THEN /\ trials' = Append(trials, TrialRecord("PRUNED", NoValue, exc.reason))
            /\ pc' = "idle"
       ELSE /\ trials' = Append(trials, TrialRecord("FAIL", NoValue, exc.type))
            /\ pc' = "terminated"
    /\ Frame(NoCfg)
    /\ UNCHANGED <<nItems, inv, net, fn, cb>>

\* a < b on the values of completed trials (same denominator nItems)
ValueLt(a, b) == FGt(b.num, a.num)

Completed == {k \in 1..Len(trials) : trials[k].state = "COMPLETE"}

\* study.best_trial: a completed trial no other completed trial beats
BestTrials == {k \in Completed : \A m \in Completed : ~ValueLt(trials[m].value, trials[k].value)}

Next ==
    \/ StartTrial
    \/ LoopHead
    \/ BatchError
    \/ Invert
    \/ CallRaised
    \/ DivergenceCheck
    \/ Accumulate
    \/ ShouldPrune
    \/ TrialReturned
    \/ TrialRaised

Spec == Init /\ [][Next]_vars

\* ------------------------------------------------- inversion optimizer run
\* maximum iteration count of one run
MaxIter == 3
\* largest finite loss / gradient norm of a run
InvMaxLoss == 3
MaxGrad == 2

InvLossValues == {F(n) : n \in 0..InvMaxLoss} \cup {Inf, NaN}
InvThresholds == {1, 2}

InvStart(lt, gt, rs) ==
    [state |-> "INIT", loss_threshold |-> lt, grad_threshold |-> gt,
     random_start |-> rs, start |-> "unset", trace |-> <<>>, grad |-> 0]

InvInitStates ==
    {InvStart(lt, gt, rs) : lt \in InvThresholds, gt \in InvThresholds,
                            rs \in BOOLEAN}

\* loss improvement between the two latest steps falls below loss_threshold
\* (never with a single recorded loss), or the gradient norm falls below
\* grad_threshold
Converged(trace, g, lt, gt) ==
    \/ /\ Len(trace) >= 2
       /\ trace[Len(trace) - 1].v - trace[Len(trace)].v < lt
    \/ g < gt

\* BudgetReached of a run without iteration limit
BudgetReached_mut(trace) == FALSE

\* the maximum iteration count is reached
BudgetReached(trace) == Len(trace) >= MaxIter

\* the final recorded loss exceeds the initial recorded loss
FinalExceedsInitial(trace) == FGt(trace[Len(trace)], trace[1])

\* the state after a step that recorded the loss trace and gradient norm g
AfterStep(trace, g, lt, gt) ==
    CASE ~IsFinite(trace[Len(trace)]) -> "DIVERGED"
      [] Converged(trace, g, lt, gt) ->
            IF FinalExceedsInitial(trace) THEN "DIVERGED" ELSE "CONVERGED"
      [] BudgetReached(trace) ->
            IF FinalExceedsInitial(trace) THEN "DIVERGED" ELSE "BUDGET_EXHAUSTED"
      [] OTHER -> "ITERATE"

\* INIT: the working spectrogram starts random or from the deterministic seed
InvBegin ==
    /\ inv.state = "INIT"
    /\ inv' = [inv EXCEPT !.state = "ITERATE",
                          !.start = IF inv.random_start THEN "random" ELSE "seed"]
    /\ UNCHANGED studyVars
    /\ UNCHANGED <<net, fn, cb>>

\* ITERATE: one step computes the loss and the gradient, updates the working
\* spectrogram and records the loss
InvIterate ==
    /\ inv.state = "ITERATE"
    /\ \E l \in InvLossValues, g \in 0..MaxGrad :
          LET t == Append(inv.trace, l)
          IN inv' = [inv EXCEPT !.trace = t, !.grad = g,
                                !.state = AfterStep(t, g, inv.loss_threshold,
                                                    inv.grad_threshold)]
    /\ UNCHANGED studyVars
    /\ UNCHANGED <<net, fn, cb>>

InvTerminal == {"CONVERGED", "DIVERGED", "BUDGET_EXHAUSTED"}

InvSpecInit ==
    /\ StudyInit
    /\ nItems = 1
    /\ inv \in InvInitStates
    /\ net = NetIdle
    /\ fn = FnIdle
    /\ cb = CbIdle

InvNext == InvBegin \/ InvIterate

SpecInv == InvSpecInit /\ [][InvNext]_vars /\ WF_vars(InvNext)

\* ------------------------------------------------------ model construction
\* largest frequency_bins, time_frames and latent_dim of the model
MaxFreq == 3
MaxTime == 3
MaxLatent == 2

RECURSIVE Prod(_)
\* number of elements of a tensor of shape sh (batch axis left out)
Prod(sh) == IF sh = <<>> THEN 1 ELSE Head(sh) * Prod(Tail(sh))

ShapeError == <<0>>

\* input_shape[:-1]
DropLast(sh) == SubSeq(sh, 1, Len(sh) - 1)

\* Reshape(target): the element count must be unchanged
Reshape(target, sh) == IF Prod(sh) = Prod(target) THEN target ELSE ShapeError

\* Permute((2, 1))
Permute21(sh) == <<sh[2], sh[1]>>

\* width of the output of Bidirectional(LSTM(units)): the default merge mode
\* concatenates the forward and the backward output
BidirectionalUnits(units) == 2 * units

\* Bidirectional(LSTM(units)): the time axis is reduced
BiLSTM(units, sh) == <<BidirectionalUnits(units)>>

\* Bidirectional(LSTM(units, return_sequences=True)): one output per frame
BiLSTMSeq(units, sh) == <<sh[1], BidirectionalUnits(units)>>

\* Dense(units)
Dense(units, sh) == [sh EXCEPT ![Len(sh)] = units]

\* RepeatVector(n)
RepeatVector(n, sh) == <<n, sh[1]>>

\* the layers of build_encoder up to z, applied to the input shape
EncoderLayer(k, input_shape, latent_dim, sh) ==
    CASE k = 1 -> Reshape(DropLast(input_shape), sh)
      [] k = 2 -> Permute21(sh)
      [] k = 3 -> BiLSTM(latent_dim, sh)
      [] k = 4 -> Dense(latent_dim, sh)
      [] OTHER -> sh

EncoderDepth == 4

\* the layers of build_decoder, applied to the latent vector's shape
DecoderLayer(k, output_shape, latent_dim, sh) ==
    CASE k = 1 -> Dense(latent_dim, sh)
      [] k = 2 -> RepeatVector(output_shape[2], sh)
      [] k = 3 -> BiLSTMSeq(output_shape[1], sh)
      [] k = 4 -> sh
      [] k = 5 -> Permute21(sh)
      [] k = 6 -> Reshape(output_shape, sh)
      [] OTHER -> sh

DecoderDepth == 6

NetStart(f, t, l) ==
    [stage |-> "encoder", input_shape |-> <<f, t, 1>>, latent_dim |-> l,
     k |-> 0, shape |-> <<f, t, 1>>, frame |-> 0,
     loss_added |-> FALSE, compiled |-> FALSE, returned |-> FALSE]

NetInitStates ==
    {NetStart(f, t, l) : f \in 1..MaxFreq, t \in 1..MaxTime, l \in 1..MaxLatent}

\* build_encoder: the next layer is applied to the encoder's tensor
BuildEncoderStep ==
    /\ net.stage = "encoder"
    /\ net.k < EncoderDepth
    /\ LET sh == EncoderLayer(net.k + 1, net.input_shape, net.latent_dim, net.shape)
       IN net' = [net EXCEPT !.k = net.k + 1, !.shape = sh,
                             !.stage = IF sh = ShapeError THEN "error" ELSE "encoder"]
    /\ UNCHANGED studyVars
    /\ UNCHANGED <<inv, fn, cb>>

\* decoder(z): the sampled latent vector z enters build_decoder's Input
BuildDecoderInput ==
    /\ net.stage = "encoder"
    /\ net.k = EncoderDepth
    /\ net' = [net EXCEPT !.stage = "decoder", !.k = 0,
                          !.shape = IF net.shape = <<net.latent_dim>>
                                    THEN <<net.latent_dim>> ELSE ShapeError]
    /\ UNCHANGED studyVars
    /\ UNCHANGED <<inv, fn, cb>>

\* encoder_input.shape.assert_is_compatible_with(decoder_output.shape): the
\* batch axis is unknown on both sides, every other axis is known
Compatible(a, b) == Len(a) = Len(b) /\ \A j \in 1..Len(a) : a[j] = b[j]

\* CvaeOutcome of a build_cvae that goes on after any failure
CvaeOutcome_mut(input_shape, out) == "built"

\* build_cvae once build_decoder's last layer gave a tensor of shape out: an
\* error of that layer leaves build_cvae, so does a failed shape check, and
\* only then the losses are added, the model is compiled and returned
CvaeOutcome(input_shape, out) ==
    CASE out = ShapeError -> "error"
      [] ~Compatible(input_shape, out) -> "error"
      [] OTHER -> "built"

\* build_decoder: the next layer is applied to the decoder's tensor; after
\* the last layer build_cvae runs to its end
BuildDecoderStep ==
    /\ net.stage = "decoder"
    /\ net.k < DecoderDepth
    /\ LET sh == DecoderLayer(net.k + 1, net.input_shape, net.latent_dim, net.shape)
       IN net' = [net EXCEPT !.k = net.k + 1, !.shape = sh,
                             !.frame = IF net.k + 1 = 3 THEN sh[2] ELSE net.frame,
                             !.stage = CASE net.k + 1 = DecoderDepth ->
                                                CvaeOutcome(net.input_shape, sh)
                                         [] sh = ShapeError -> "error"
                                         [] OTHER -> "decoder",
                             !.loss_added =
                                 (/\ net.k + 1 = DecoderDepth
                                  /\ CvaeOutcome(net.input_shape, sh) = "built"),
                             !.compiled =
                                 (/\ net.k + 1 = DecoderDepth
                                  /\ CvaeOutcome(net.input_shape, sh) = "built"),
                             !.returned =
                                 (/\ net.k + 1 = DecoderDepth
                                  /\ CvaeOutcome(net.input_shape, sh) = "built")]
    /\ UNCHANGED studyVars
    /\ UNCHANGED <<inv, fn, cb>>

NetSpecInit ==
    /\ StudyInit
    /\ nItems = 1
    /\ inv = InvIdle
    /\ net \in NetInitStates
    /\ fn = FnIdle
    /\ cb = CbIdle

NetNext == BuildEncoderStep \/ BuildDecoderInput \/ BuildDecoderStep

SpecNet == NetSpecInit /\ [][NetNext]_vars

\* ============================================ tanh_to_sigmoid and KLLoss
\* Bounds of the evaluated inputs
MaxDen == 4
KlBatch == 2

\* exact rationals num / den, den > 0
Rat(n, d) == [num |-> n, den |-> d]
RDiv(x, k) == [num |-> x.num, den |-> x.den * k]
RAddInt(x, n) == [num |-> x.num + n * x.den, den |-> x.den]
REq(a, b) == a.num * b.den = b.num * a.den
RLe(a, b) == a.num * b.den <= b.num * a.den

\* ((x / 2) + 1) / 2
tanh_to_sigmoid(x) == RDiv(RAddInt(RDiv(x, 2), 1), 2)

\* the arguments of tanh_to_sigmoid: the range [-1, 1] of tanh
TanhInputs ==
    {x \in {Rat(n, d) : n \in -MaxDen..MaxDen, d \in 1..MaxDen} :
        -x.den <= x.num /\ x.num <= x.den}

\* fixed point with three decimals: tf.exp on the log-variances of the
\* model, and log(2 * pi)
Exp1000(v) == CASE v = -1 -> 368 [] v = 0 -> 1000 [] v = 1 -> 2718
Log2Pi1000 == 1838

RECURSIVE SumSeq(_)
SumSeq(q) == IF q = <<>> THEN 0 ELSE q[1] + SumSeq(Tail(q))

\* a scalar argument is broadcast against the tensor it is combined with
Broadcast(t, v) == [b \in 1..Len(t) |-> [j \in 1..Len(t[b]) |-> v]]

\* KLLoss._log_normal_pdf with raxis = 1, per example, in units of 1/2000:
\* reduce_sum(-0.5 * ((sample - mean) ** 2 * exp(-logvar) + logvar + log2pi))
log_normal_pdf(sample, mean, logvar) ==
    [b \in 1..Len(sample) |->
        -SumSeq([j \in 1..Len(sample[b]) |->
                    (sample[b][j] - mean[b][j]) * (sample[b][j] - mean[b][j])
                        * Exp1000(-logvar[b][j])
                    + 1000 * logvar[b][j] + Log2Pi1000])]

\* _kld that takes a prior of log-variance 1
kld_mut(x) ==
    LET q == log_normal_pdf(x[1], x[2], x[3])
        p == log_normal_pdf(x[1], Broadcast(x[1], 0), Broadcast(x[1], 1))
    IN [b \in 1..Len(x[1]) |-> q[b] - p[b]]

\* KLLoss._kld: log q(z | mean, logvar) - log p(z), p the standard normal
kld(x) ==
    LET q == log_normal_pdf(x[1], x[2], x[3])
        p == log_normal_pdf(x[1], Broadcast(x[1], 0), Broadcast(x[1], 0))
    IN [b \in 1..Len(x[1]) |-> q[b] - p[b]]

\* Lambda(tf.reduce_mean) over the examples of the batch
reduce_mean(v) == Rat(SumSeq(v), Len(v))

ZValues == {-1, 2}
MeanValues == {0, 1}
LogVarValues == {-1, 0, 1}
Tensors(l, vals) == [1..KlBatch -> [1..l -> vals]]

TanhStart(x) == [op |-> "tanh_to_sigmoid", x |-> x, done |-> FALSE, y |-> x]
KlStart(z, m, v) ==
    [op |-> "KLLoss", z |-> z, z_mean |-> Broadcast(z, m),
     z_log_var |-> Broadcast(z, v), done |-> FALSE,
     kl |-> <<>>, loss |-> Rat(0, 1)]

FnInitStates ==
    {TanhStart(x) : x \in TanhInputs} \cup
    UNION {{KlStart(z, m, v) : z \in Tensors(l, ZValues),
                               m \in MeanValues, v \in LogVarValues}
           : l \in 1..MaxLatent}

\* Lambda(tanh_to_sigmoid) applied to an activation
CallTanhToSigmoid ==
    /\ fn.op = "tanh_to_sigmoid"
    /\ ~fn.done
    /\ fn' = [fn EXCEPT !.done = TRUE, !.y = tanh_to_sigmoid(fn.x)]
    /\ UNCHANGED studyVars
    /\ UNCHANGED <<inv, net, cb>>

\* KLLoss.call on [z, z_mean, z_log_var], built with mean = True
CallKLLoss ==
    /\ fn.op = "KLLoss"
    /\ ~fn.done
    /\ LET k == kld(<<fn.z, fn.z_mean, fn.z_log_var>>)
       IN fn' = [fn EXCEPT !.done = TRUE, !.kl = k, !.loss = reduce_mean(k)]
    /\ UNCHANGED studyVars
    /\ UNCHANGED <<inv, net, cb>>

FnSpecInit ==
    /\ StudyInit
    /\ nItems = 1
    /\ inv = InvIdle
    /\ net = NetIdle
    /\ fn \in FnInitStates
    /\ cb = CbIdle

FnNext == CallTanhToSigmoid \/ CallKLLoss

SpecFn == FnSpecInit /\ [][FnNext]_vars

\* ====================================================== VisualizeCallback
\* Bounds of a training run
CbEpochs == 2
CbSteps == 2
MaxFrequency == 3
CbExamples == 2

\* an optional argument: None or a number
None == [some |-> FALSE, v |-> 0]
Some(n) == [some |-> TRUE, v |-> n]

\* truth value of an optional number: None and 0 are false
Truthy(o) == o.some /\ o.v # 0

\* a or b
Or(a, b) == IF Truthy(a) THEN a ELSE b

\* f"{what}_{i}@{'epoch' if epoch else 'batch'}_{epoch or batch:06}" for the
\* examples 1..n; formatting None with the spec 06 raises TypeError at the
\* first title, before anything is saved
Titles(n, batch, epoch) ==
    IF Or(epoch, batch).some
    THEN {[what |-> w, i |-> k,
           kind |-> IF Truthy(epoch) THEN "epoch" ELSE "batch",
           num |-> Or(epoch, batch).v] : w \in {"recon", "gen"}, k \in 1..n}
    ELSE {}

TitleError(batch, epoch) == ~Or(epoch, batch).some

\* self.frequency: "epoch" or a number of batches
Frequencies ==
    {[mode |-> "epoch", n |-> 0]} \cup
    {[mode |-> "int", n |-> k] : k \in 1..MaxFrequency}

\* a callback after __init__ and on_train_begin, in a fit of `epochs` epochs
\* of `steps` batches that starts at initial_epoch
CbStart(freq, n, epochs, steps, initial_epoch) ==
    [pos |-> "epoch_begin", frequency |-> freq, n_examples |-> n,
     total_batch |-> 0, epochs |-> epochs, steps |-> steps,
     epoch |-> initial_epoch, batch |-> 0, titles |-> {}]

CbInitStates ==
    {CbStart(f, n, CbEpochs, st, e0) :
        f \in Frequencies, n \in 1..CbExamples,
        st \in 1..CbSteps, e0 \in 0..(CbEpochs - 1)}

\* _visualize_reconstruction and _visualize_generation with the same arguments
Visualize(batch, epoch, then) ==
    /\ batch.some \/ epoch.some
    /\ cb' = [cb EXCEPT
                !.titles = cb.titles \cup Titles(cb.n_examples, batch, epoch),
                !.pos = IF TitleError(batch, epoch) THEN "crashed" ELSE then]

\* on_epoch_begin(epoch)
OnEpochBegin ==
    /\ cb.pos = "epoch_begin"
    /\ IF cb.frequency.mode = "epoch"
       THEN Visualize(None, Some(cb.epoch), "batch_begin")
       ELSE cb' = [cb EXCEPT !.pos = "batch_begin"]
    /\ UNCHANGED studyVars
    /\ UNCHANGED <<inv, net, fn>>

\* on_train_batch_begin(batch)
OnTrainBatchBegin ==
    /\ cb.pos = "batch_begin"
    /\ IF /\ cb.frequency.mode = "int"
          /\ cb.total_batch % cb.frequency.n = 0
       THEN Visualize(Some(cb.total_batch), None, "batch_end")
       ELSE cb' = [cb EXCEPT !.pos = "batch_end"]
    /\ UNCHANGED studyVars
    /\ UNCHANGED <<inv, net, fn>>

\* the hook fit calls after on_train_batch_end: the next batch of the epoch,
\* the next epoch, or none
AfterBatch(c) ==
    IF c.batch + 1 < c.steps
    THEN [c EXCEPT !.batch = c.batch + 1, !.pos = "batch_begin"]
    ELSE [c EXCEPT !.batch = 0, !.epoch = c.epoch + 1,
                   !.pos = IF c.epoch + 1 < c.epochs THEN "epoch_begin"
                           ELSE "done"]

\* on_train_batch_end(batch)
OnTrainBatchEnd ==
    /\ cb.pos = "batch_end"
    /\ cb' = AfterBatch([cb EXCEPT !.total_batch = cb.total_batch + 1])
    /\ UNCHANGED studyVars
    /\ UNCHANGED <<inv, net, fn>>

CbSpecInit ==
    /\ StudyInit
    /\ nItems = 1
    /\ inv = InvIdle
    /\ net = NetIdle
    /\ fn = FnIdle
    /\ cb \in CbInitStates

CbNext == OnEpochBegin \/ OnTrainBatchBegin \/ OnTrainBatchEnd

SpecCb == CbSpecInit /\ [][CbNext]_vars

\* ================================================================ claims
Last(q) == q[Len(q)]

PruneReasons == {"overflow", "diverged", "should_prune"}

\* C1: an OverflowError raised by the to_mel.to_stft call of any batch is
\* caught and leaves objective as TrialPruned, never as an OverflowError; the
\* trial is recorded as pruned and the search is not terminated.
C1_OverflowIsPruned ==
    [][/\ (pc = "called" /\ outcome.kind = "overflow")
          => (pc' = "raised"
              /\ exc' = [type |-> "TrialPruned", reason |-> "overflow"])
       /\ (pc = "raised" /\ exc.reason = "overflow")
          => (/\ pc' = "idle"
              /\ Len(trials') = Len(trials) + 1
              /\ Last(trials').state = "PRUNED")
       /\ exc'.type # "OverflowError"]_vars

\* a trial pruned on overflow is on record and the next trial is running
C1_Witness ==
    /\ Len(trials) >= 1
    /\ trials[1].state = "PRUNED"
    /\ trials[1].reason = "overflow"
    /\ pc = "loop"

\* C2: when the returned loss trace ends above its first value, objective
\* raises TrialPruned at once, the trial is recorded as pruned like a trial
\* that overflowed, the optimizer is not called again for that batch and no
\* later batch of the trial is processed.
C2_DivergenceIsPruned ==
    /\ [][/\ (/\ pc = "called"
              /\ outcome.kind = "ret"
              /\ FGt(Last(outcome.losses), outcome.losses[1]))
             => (/\ pc' = "raised"
                 /\ exc' = [type |-> "TrialPruned", reason |-> "diverged"]
                 /\ calls' = calls
                 /\ i' = i
                 /\ loss' = loss
                 /\ reports' = reports)
          /\ (pc = "raised" /\ exc.reason \in {"overflow", "diverged"})
             => (/\ pc' = "idle"
                 /\ Len(trials') = Len(trials) + 1
                 /\ Last(trials').state = "PRUNED"
                 /\ Last(trials').batches = i
                 /\ calls = i + 1
                 /\ Len(reports) = i)]_vars
    /\ [](\A k \in 1..Len(trials) :
             trials[k].reason \in {"overflow", "diverged"}
                => trials[k].state = "PRUNED")

\* a trial was pruned for divergence at its second batch
C2_Witness ==
    \E k \in 1..Len(trials) :
        /\ trials[k].state = "PRUNED"
        /\ trials[k].reason = "diverged"
        /\ trials[k].batches = 1

\* C3: a trial one of whose inversion runs reached DIVERGED (overflow, raised
\* or left as a non-finite loss in the trace, or final loss above initial
\* loss) ends as pruned, never as a completed or a failed trial.
C3_DivergedRunEndsPruned ==
    [][(pc \in {"returned", "raised"} /\ unstable)
          => (/\ Len(trials') = Len(trials) + 1
              /\ Last(trials').state = "PRUNED")]_vars

\* C4: once objective raises TrialPruned (overflow, divergence or
\* should_prune() after a report) the trial gets no further batch, report or
\* value; its record is never changed, and the best trial of the study is a
\* completed trial that ran every batch.
C4_PrunedIsExcluded ==
    /\ [][/\ (pc = "reported" /\ shouldPrune)
             => (/\ pc' = "raised"
                 /\ exc' = [type |-> "TrialPruned", reason |-> "should_prune"]
                 /\ i' = i
                 /\ reports' = reports)
          /\ (pc = "raised" /\ exc.type = "TrialPruned")
             => (/\ pc' = "idle"
                 /\ Len(trials') = Len(trials) + 1
                 /\ Last(trials').state = "PRUNED"
                 /\ Last(trials').value = NoValue
                 /\ Last(trials').batches = i
                 /\ calls \in {i, i + 1}
                 /\ Len(reports) \in {i, i + 1})
          /\ \A k \in 1..Len(trials) : trials'[k] = trials[k]]_vars
    /\ [](/\ \A k \in 1..Len(trials) :
                trials[k].state = "PRUNED"
                   => (/\ trials[k].reason \in PruneReasons
                       /\ trials[k].value = NoValue
                       /\ k \notin BestTrials)
          /\ (pc = "returned")
                => (i = NumBatches /\ calls = i /\ Len(reports) = i)
          /\ \A k \in BestTrials :
                /\ trials[k].state = "COMPLETE"
                /\ trials[k].batches = NumBatches)

\* a trial pruned by should_prune() and a completed trial are on record, and
\* the completed one is the best trial
C4_Witness ==
    /\ Len(trials) = 2
    /\ trials[1].state = "PRUNED"
    /\ trials[1].reason = "should_prune"
    /\ BestTrials = {2}

\* C5: trials run one after another: a configuration is sampled only while no
\* trial is running, a trial is recorded only when its objective returned or
\* raised, and a trial ends pruned only through the three prune conditions.
C5_TrialsSequential ==
    /\ [][/\ (pc' = "loop" /\ pc # "reported")
             => (pc = "idle" /\ cfg' \in Configs /\ trials' = trials)
          /\ (cfg' # cfg)
             => (\/ pc = "idle" /\ pc' = "loop"
                 \/ pc \in {"returned", "raised"} /\ cfg' = NoCfg)
          /\ (trials' # trials)
             => (/\ pc \in {"returned", "raised"}
                 /\ pc' \in {"idle", "terminated"}
                 /\ Len(trials') = Len(trials) + 1)]_vars
    /\ [](/\ (pc = "idle") => (cfg = NoCfg)
          /\ \A k \in 1..Len(trials) :
                trials[k].state = "PRUNED" => trials[k].reason \in PruneReasons)

\* the second trial runs after the first one completed
C5_Witness ==
    /\ Len(trials) = 1
    /\ trials[1].state = "COMPLETE"
    /\ pc = "called"
    /\ cfg \in Configs

\* C7: an exception of a trial other than the OverflowError of the inversion
\* call is not turned into a prune: it leaves objective as it is, the trial
\* fails, study.optimize is left and no later trial is started.
C7_OtherErrorsPropagate ==
    /\ [][/\ (pc = "called" /\ outcome.kind = "error")
             => (pc' = "raised" /\ exc'.type = "Error")
          /\ (pc = "raised" /\ exc.type = "Error")
             => (/\ pc' = "terminated"
                 /\ Len(trials') = Len(trials) + 1
                 /\ Last(trials').state = "FAIL"
                 /\ Last(trials').reason = "Error")
          /\ (pc = "terminated") => (pc' = "terminated" /\ trials' = trials)]_vars
    /\ [](/\ exc.type = "TrialPruned" => exc.reason \in PruneReasons
          /\ \A k \in 1..Len(trials) :
                trials[k].reason = "Error"
                   => (/\ trials[k].state = "FAIL"
                       /\ k = Len(trials)
                       /\ pc = "terminated"))

\* the search was left on the error of the first trial's inversion call
\* although a further trial was allowed
C7_Witness ==
    /\ pc = "terminated"
    /\ Len(trials) = 1
    /\ trials[1].state = "FAIL"
    /\ trials[1].reason = "Error"
    /\ Len(trials) < MaxTrials

\* equality of two quotients with a float numerator
QuotEq(a, b) ==
    /\ a.num.k = b.num.k
    /\ IsFinite(a.num) => a.num.v * b.den = b.num.v * a.den

\* C8: the value of a completed trial is the sum of its per-batch errors
\* divided by the number of batches that were evaluated.
C8_ValueIsMeanOverBatches ==
    \A k \in Completed :
        /\ trials[k].batches > 0
        /\ QuotEq(trials[k].value,
                  FDiv(trials[k].value.num, trials[k].batches))

\* C9: every hyperparameter of the trial's configuration, random_start
\* included, is handed to the inversion optimizer the trial invokes.
C9_RandomStartReachesInversion ==
    (calls > 0)
       => (/\ callArgs.lr = cfg.lr
           /\ callArgs.momentum = cfg.momentum
           /\ callArgs.loss_threshold = cfg.loss_threshold
           /\ callArgs.grad_threshold = cfg.grad_threshold
           /\ "random_start" \in DOMAIN callArgs
           /\ callArgs.random_start = cfg.random_start)

\* a stopping threshold is met by the latest step of the run
ThresholdMet ==
    \/ /\ Len(inv.trace) >= 2
       /\ inv.trace[Len(inv.trace) - 1].v - inv.trace[Len(inv.trace)].v
             < inv.loss_threshold
    \/ inv.grad < inv.grad_threshold

\* C6: a run goes INIT -> ITERATE -> terminal and ends in one of CONVERGED,
\* DIVERGED, BUDGET_EXHAUSTED: it is in ITERATE only while neither threshold
\* is met and fewer than MaxIter steps were made, it ends BUDGET_EXHAUSTED
\* only at MaxIter steps with no threshold met, and every run terminates.
C6_RunTerminates ==
    /\ [][inv'.state # inv.state
             => \/ inv.state = "INIT" /\ inv'.state = "ITERATE"
                \/ inv.state = "ITERATE" /\ inv'.state \in InvTerminal]_vars
    /\ []((inv.state = "ITERATE" /\ Len(inv.trace) > 0)
             => (Len(inv.trace) < MaxIter /\ ~ThresholdMet))
    /\ [](inv.state = "BUDGET_EXHAUSTED"
             => (Len(inv.trace) = MaxIter /\ ~ThresholdMet))
    /\ [](inv.state = "CONVERGED" => ThresholdMet)
    /\ <>(inv.state \in InvTerminal)

\* a run used up its iterations without meeting a threshold
C6_Witness ==
    /\ inv.state = "BUDGET_EXHAUSTED"
    /\ Len(inv.trace) = MaxIter

\* C10: the decoder's recurrent layer emits frequency_bins values per frame,
\* the final Reshape is accepted and the decoder's output has the shape of
\* the encoder's input.
C10_DecoderOutputShape ==
    /\ net.stage # "error"
    /\ (net.stage = "decoder" /\ net.k >= 3) => net.frame = net.input_shape[1]
    /\ net.stage = "built" => net.shape = net.input_shape

C12_TanhToSigmoidOntoUnit ==
    (fn.op = "tanh_to_sigmoid" /\ fn.done) =>
        /\ REq(fn.x, Rat(-1, 1)) => REq(fn.y, Rat(0, 1))
        /\ REq(fn.x, Rat(0, 1)) => REq(fn.y, Rat(1, 2))
        /\ REq(fn.x, Rat(1, 1)) => REq(fn.y, Rat(1, 1))
        /\ RLe(Rat(0, 1), fn.y) /\ RLe(fn.y, Rat(1, 1))

\* C13: KLLoss on a batch whose mean and log-variance are 0 gives 0 for
\* each example and 0 as the batch mean, whatever the sampled z.
C13_KlOfPriorIsZero ==
    (/\ fn.op = "KLLoss"
     /\ fn.done
     /\ fn.z_mean = Broadcast(fn.z, 0)
     /\ fn.z_log_var = Broadcast(fn.z, 0)) =>
        /\ Len(fn.kl) = KlBatch
        /\ \A b \in 1..Len(fn.kl) : fn.kl[b] = 0
        /\ REq(fn.loss, Rat(0, 1))

\* the KL loss of a batch of two latent dimensions with non-zero z in every
\* example was computed with mean 0 and log-variance 0
C13_Witness ==
    /\ fn.op = "KLLoss"
    /\ fn.done
    /\ fn.z_mean = Broadcast(fn.z, 0)
    /\ fn.z_log_var = Broadcast(fn.z, 0)
    /\ \A b \in 1..Len(fn.z) : Len(fn.z[b]) >= 2 /\ fn.z[b][1] # 0
    /\ Len(fn.kl) = KlBatch
    /\ fn.loss.den = KlBatch

\* C14: within a trial every batch goes through inversion, overflow check,
\* divergence check, accumulation, report and should_prune in this order; the
\* reports are made at the steps 0, 1, 2, ..., one for each batch that passed
\* both checks and none for a batch that overflowed or diverged, each report
\* carries the running sum that includes its batch, and the reported sum
\* never decreases.
C14_BatchOrderAndReports ==
    /\ [](\A j \in 1..Len(reports) : reports[j].step = j - 1)
    /\ [](\A j \in 1..(Len(reports) - 1) :
             ~FGt(reports[j].value, reports[j + 1].value))
    /\ [](Len(reports) =
             IF pc = "reported" \/ (pc = "raised" /\ exc.reason = "should_prune")
             THEN i + 1 ELSE i)
    /\ [][/\ pc = "try"
             => (pc' = "called" /\ reports' = reports /\ loss' = loss)
          /\ pc = "called"
             => (/\ pc' \in {"raised", "accumulate"}
                 /\ pc' = "raised" => outcome.kind # "ret"
                                      \/ FGt(Last(outcome.losses), outcome.losses[1])
                 /\ reports' = reports
                 /\ loss' = loss)
          /\ pc = "accumulate"
             => (/\ pc' = "reported"
                 /\ ~FGt(loss, loss')
                 /\ reports' = Append(reports, [value |-> loss', step |-> i]))
          /\ pc = "reported"
             => (/\ pc' \in {"raised", "loop"}
                 /\ reports' = reports
                 /\ loss' = loss
                 /\ pc' = "loop" => i' = i + 1)]_vars

\* the second batch of a trial was reported with a larger running sum than
\* the first
C14_Witness ==
    /\ pc = "reported"
    /\ Len(reports) = 2
    /\ i = 1
    /\ FGt(reports[2].value, reports[1].value)

\* the trace ended exactly at its initial loss
EndsAtInitial(l) == IsFinite(l[1]) /\ Last(l) = l[1]

\* the trace rose above its initial loss and ended at or below it
RoseThenFell(l) ==
    /\ \E j \in 2..(Len(l) - 1) : FGt(l[j], l[1])
    /\ IsFinite(Last(l))
    /\ ~FGt(Last(l), l[1])

\* C15: a batch whose loss trace ends exactly at its initial loss, or rose
\* above the initial loss at an intermediate step and ended at or below it,
\* does not prune the trial: its error is added to the sum and reported.
C15_DivergenceTestIsStrict ==
    [][/\ (/\ pc = "called"
           /\ outcome.kind = "ret"
           /\ EndsAtInitial(outcome.losses) \/ RoseThenFell(outcome.losses))
          => (/\ pc' = "accumulate"
              /\ exc' = exc
              /\ outcome' = outcome
              /\ trials' = trials)
       /\ (/\ pc = "accumulate"
           /\ EndsAtInitial(outcome.losses) \/ RoseThenFell(outcome.losses))
          => (/\ pc' = "reported"
              /\ Len(reports') = Len(reports) + 1
              /\ Last(reports') = [value |-> loss', step |-> i]
              /\ trials' = trials)]_vars

\* a batch whose loss rose at its middle step and fell back passed the test
C15_Witness ==
    /\ pc = "accumulate"
    /\ outcome.kind = "ret"
    /\ RoseThenFell(outcome.losses)

\* the titles of the reconstructions and generations of one trigger
TriggerTitles(kind, num) ==
    {[what |-> w, i |-> k, kind |-> kind, num |-> num] :
        w \in {"recon", "gen"}, k \in 1..cb.n_examples}

\* C16: with frequency "epoch" the callback saves a reconstruction and a
\* generation titled with the epoch at the beginning of every epoch, epoch 0
\* included; with an integer frequency it saves them, titled with
\* total_batch, at exactly the batch starts where total_batch is a multiple
\* of the frequency; total_batch grows by one at every batch end and is
\* never reset.
C16_VisualizesEveryTrigger ==
    [][/\ (cb.pos = "epoch_begin" /\ cb.frequency.mode = "epoch")
          => (/\ cb'.pos = "batch_begin"
              /\ cb'.titles = cb.titles \cup TriggerTitles("epoch", cb.epoch))
       /\ (cb.pos = "epoch_begin" /\ cb.frequency.mode = "int")
          => (cb'.pos = "batch_begin" /\ cb'.titles = cb.titles)
       /\ (/\ cb.pos = "batch_begin"
           /\ cb.frequency.mode = "int"
           /\ cb.total_batch % cb.frequency.n = 0)
          => (/\ cb'.pos = "batch_end"
              /\ cb'.titles =
                     cb.titles \cup TriggerTitles("batch", cb.total_batch))
       /\ (/\ cb.pos = "batch_begin"
           /\ \/ cb.frequency.mode = "epoch"
              \/ cb.total_batch % cb.frequency.n # 0)
          => (cb'.pos = "batch_end" /\ cb'.titles = cb.titles)
       /\ cb.pos = "batch_end"
          => (/\ cb'.total_batch = cb.total_batch + 1
              /\ cb'.titles = cb.titles)
       /\ cb.pos \in {"epoch_begin", "batch_begin"}
          => cb'.total_batch = cb.total_batch]_vars
====
